---- MODULE Spec2Model ----
(***************************************************************************)
(* A model of the realtime session client of kahirrao/OpenAI_Automation:   *)
(*   - OpenAIRealtimeClient   (src/src/openai_client.py)                   *)
(*   - the transcription helpers (src/src/Transcription.py)                *)
(*   - WebSocketManager       (src/src/websockect_manager.py)              *)
(* The caller thread runs one operation at a time; the websocket thread    *)
(* of every WebSocketApp created so far delivers the callbacks on_open,    *)
(* on_message, on_error and on_close, interleaved with the caller's steps. *)
(***************************************************************************)
EXTENDS Integers, Sequences, FiniteSets, TLC

\* ------------------------------------------------------------- bounds
\* A run is driven by one of the scripts below; each bounds the operations
\* the caller invokes, the JSON messages the server delivers and the
\* connections the caller opens.
HandshakeOps == 3
HandshakeMsgs == 3
CommitOps == 2
CommitMsgs == 5
ClearOps == 3
ClearMsgs == 3
ItemsOps == 3
ItemsMsgs == 3
ResponseOps == 2
ResponseMsgs == 4
ReconnectOps == 3
ReconnectMsgs == 2
ReconnectConns == 2
TranscriptionOps == 3
TranscriptionMsgs == 3
TranscriptionDrops == 1
WMOps == 2
WMMsgs == 2
WMConns == 2
WMDrops == 1
DeliveryOps == 2
DeliveryMsgs == 5
AckOps == 3
AckMsgs == 3
LiveOps == 2
LiveMsgs == 1

\* ------------------------------------------------------------- values
\* Python's None; also the value of dict.get for an absent key.
None == "None"

\* A decoded JSON object, as on_message stores it.  Absent keys are None
\* (delta: the empty sequence, content_index/output_index: -1).  Strings
\* that get concatenated (delta payloads, transcripts) are sequences.
BlankMsg ==
  [kind |-> "obj", type |-> None, event_id |-> None, item_id |-> None,
   item_ref |-> None, session_id |-> None, delta |-> << >>,
   transcript |-> None, audio |-> None, response_id |-> None,
   ci |-> -1, oi |-> -1]

\* latest_received_message = None
NoneMsg == [BlankMsg EXCEPT !.kind = "none"]
\* A JSON value that decodes but is no object, and is truthy (e.g. [1]).
NonObj == [BlankMsg EXCEPT !.kind = "nonobj"]

\* Python truthiness of the slot: None and {} are falsy.
Truthy(m) == m.kind = "nonobj" \/ (m.kind = "obj" /\ m # BlankMsg)
\* msg.get(...) raises AttributeError on a value that is no dict.
IsDict(m) == m.kind = "obj"

Msg(t, e) == [BlankMsg EXCEPT !.type = t, !.event_id = e]

\* ---- what the server may send
M_Created      == [Msg("session.created", "e1") EXCEPT !.session_id = "s1"]
M_CreatedNoSid == Msg("session.created", "e1")
M_Updated      == [Msg("session.updated", "e2") EXCEPT !.session_id = "s1"]
M_UpdatedS2    == [Msg("session.updated", "e2") EXCEPT !.session_id = "s2"]
M_UpdatedNoEid == [Msg("session.updated", None) EXCEPT !.session_id = "s1"]
M_TUpdated     == [Msg("transcription_session.updated", "e2") EXCEPT !.session_id = "s1"]
M_TUpdatedS2   == [Msg("transcription_session.updated", "e2") EXCEPT !.session_id = "s2"]
M_TUpdatedNoSid == Msg("transcription_session.updated", "e2")
M_Speech       == [Msg("input_audio_buffer.speech_started", "e3") EXCEPT !.item_id = "i1"]
M_SpeechNoItem == Msg("input_audio_buffer.speech_started", "e3")
M_Committed    == [Msg("input_audio_buffer.committed", "e4") EXCEPT !.item_id = "i1"]
M_ItemCreated  == [Msg("conversation.item.created", "e5") EXCEPT !.item_ref = "i1"]
M_Delta1       == [Msg("conversation.item.input_audio_transcription.delta", "e6")
                     EXCEPT !.item_id = "i1", !.delta = <<"He">>]
M_Delta2       == [Msg("conversation.item.input_audio_transcription.delta", "e7")
                     EXCEPT !.item_id = "i1", !.delta = <<"y">>]
M_Completed    == [Msg("conversation.item.input_audio_transcription.completed", "e8")
                     EXCEPT !.item_id = "i1", !.transcript = "Hey"]
M_Cleared      == Msg("input_audio_buffer.cleared", "e9")
M_ClearedNoEid == Msg("input_audio_buffer.cleared", None)
M_RetrievedA   == [Msg("conversation.item.retrieved", "e10")
                     EXCEPT !.item_ref = "A", !.transcript = "tA", !.audio = "audA"]
M_RetrievedB   == [Msg("conversation.item.retrieved", "e11")
                     EXCEPT !.item_ref = "B", !.transcript = "tB"]
M_DeletedA     == [Msg("conversation.item.deleted", "e12") EXCEPT !.item_id = "A"]
M_DeletedB     == [Msg("conversation.item.deleted", "e13") EXCEPT !.item_id = "B"]
M_DeletedNoItem == Msg("conversation.item.deleted", "e13")
M_RespCreated  == [Msg("response.created", "e14") EXCEPT !.response_id = "r1"]
M_Audio00      == [Msg("response.audio.delta", "e15")
                     EXCEPT !.delta = <<"A">>, !.ci = 0, !.oi = 0]
M_Audio10      == [Msg("response.audio.delta", "e16")
                     EXCEPT !.delta = <<"B">>, !.ci = 1, !.oi = 0]
M_Audio01      == [Msg("response.audio.delta", "e17")
                     EXCEPT !.delta = <<"C">>, !.ci = 0, !.oi = 1]
M_AudioDone    == Msg("response.audio.completed", "e18")
M_Error        == Msg("error", "e19")
M_NoType       == Msg(None, "e20")

\* A run's driver: the operations the caller may invoke and how many, the
\* messages the server may deliver and how many, and the number of times
\* the caller may connect, and the number of undecodable texts the server
\* may send.  The driver is chosen in Init and never changes.
\* In these drivers every text the server sends is either undecodable or a
\* JSON object; RawScripts below add JSON values that are not objects.
Scripts ==
  { [name |-> "handshake", drops |-> 0, conns |-> 1,
     nops |-> HandshakeOps, nmsgs |-> HandshakeMsgs,
     ops  |-> {"connect", "update", "append", "close"},
     msgs |-> {M_Created, M_CreatedNoSid, M_Updated, M_UpdatedS2, M_UpdatedNoEid,
               M_Speech, M_SpeechNoItem}],
    [name |-> "transcription", drops |-> TranscriptionDrops, conns |-> 1, nops |-> TranscriptionOps,
     nmsgs |-> TranscriptionMsgs,
     ops  |-> {"connect", "tupdate"},
     msgs |-> {M_Created, M_TUpdated, M_TUpdatedS2, M_TUpdatedNoSid, M_Speech}],
    [name |-> "commit", drops |-> 0, conns |-> 1, nops |-> CommitOps, nmsgs |-> CommitMsgs,
     ops  |-> {"connect", "commit"},
     msgs |-> {M_Created, M_Committed, M_ItemCreated, M_Delta1, M_Delta2,
               M_Completed, M_NoType}],
    [name |-> "clear", drops |-> 0, conns |-> 1, nops |-> ClearOps, nmsgs |-> ClearMsgs,
     ops  |-> {"connect", "clear", "commit"},
     msgs |-> {M_Created, M_Cleared, M_ClearedNoEid, M_Committed}],
    [name |-> "items", drops |-> 0, conns |-> 1, nops |-> ItemsOps, nmsgs |-> ItemsMsgs,
     ops  |-> {"connect", "retrieve", "delete"},
     msgs |-> {M_Created, M_RetrievedA, M_RetrievedB, M_DeletedA, M_DeletedB,
               M_DeletedNoItem}],
    [name |-> "response", drops |-> 0, conns |-> 1, nops |-> ResponseOps, nmsgs |-> ResponseMsgs,
     ops  |-> {"connect", "response"},
     msgs |-> {M_Created, M_RespCreated, M_Audio00, M_Audio10, M_AudioDone,
               M_Error}],
    [name |-> "reconnect", drops |-> 0, conns |-> ReconnectConns, nops |-> ReconnectOps,
     nmsgs |-> ReconnectMsgs,
     ops  |-> {"connect", "close", "update"},
     msgs |-> {M_Created, M_Updated}] }

\* The driver of the runs in which the deliveries to a waiting commit are
\* recorded (the variable arrived).
DeliveryScript ==
  [name |-> "delivery", drops |-> 0, conns |-> 1, nops |-> DeliveryOps,
   nmsgs |-> DeliveryMsgs,
   ops  |-> {"connect", "commit"},
   msgs |-> {M_Created, M_Committed, M_ItemCreated, M_Delta1, M_Completed}]

\* The driver of the runs in which the deliveries to a waiting clear or
\* session update are recorded.
AckScript ==
  [name |-> "acks", drops |-> 0, conns |-> 1, nops |-> AckOps, nmsgs |-> AckMsgs,
   ops  |-> {"connect", "clear", "update"},
   msgs |-> {M_Created, M_Cleared, M_Updated}]

\* The same drivers with a server that also sends JSON arrays, strings or
\* numbers.
RawScripts == { [s EXCEPT !.msgs = @ \cup {NonObj}] : s \in Scripts }

\* The driver of a run that uses a WebSocketManager instead of the client;
\* it names no client operation, so the client stays unused.
ManagerScript == [name |-> "manager", drops |-> WMDrops, conns |-> WMConns,
                  nops |-> WMOps, nmsgs |-> WMMsgs, ops |-> {}, msgs |-> {}]

\* The same drivers, cut to short runs on a single transport, for checking
\* progress.
LiveScripts ==
  { [s EXCEPT !.nops = LiveOps, !.nmsgs = LiveMsgs, !.conns = 1] :
      s \in Scripts \cup {ManagerScript} }

\* The driver of a run in which the client is never used.
IdleScript == [name |-> "idle", drops |-> 0, conns |-> 0, nops |-> 0, nmsgs |-> 0,
               ops |-> {}, msgs |-> {}]

\* ------------------------------------------------------------- state
VARIABLES
  script,        \* the driver of this run
  is_connected,  \* self.is_connected
  ev,            \* the four threading.Event flags: open, created, updated, close
  slot,          \* self.latest_received_message
  sid,           \* self.global_session_id
  eid,           \* self.global_event_id
  conns,         \* every WebSocketApp created so far; self.ws is the last
  op,            \* the operation the caller is in (or has just returned from)
  pc,            \* the caller's position in it
  arg,           \* its arguments
  loc,           \* its local variables
  ret,           \* how it returned: "None", "True", "False", "val", "raise"
  val,           \* the value it returned when ret = "val"
  why,           \* the return statement it left through
  reqSent,       \* ws.send succeeded in this operation
  warned,        \* the last *.updated message printed the session-id warning
  wm,            \* a WebSocketManager instance (its own specification, SpecWM)
  asm,           \* the audio-delta assembler's input and output (SpecAsm)
  nmsg,          \* JSON messages delivered so far
  dropped,       \* undecodable texts delivered so far
  nops,          \* operations invoked so far
  createdIds,    \* session ids carried by the session.created messages received
  lostPending,   \* on_error/on_close of self.ws ran during this operation
  arrived,       \* what the server delivered to the operation that is waiting
  duo            \* two threads in retrieve on one connected client (SpecDuo)

vars == << script, is_connected, ev, slot, sid, eid, conns, op, pc, arg, loc,
           ret, val, why, reqSent, warned, wm, asm, nmsg, dropped, nops,
           createdIds, lostPending, arrived, duo >>

\* What no step of the client changes.
env == << script, wm, asm, duo, dropped, arrived >>
\* The whole state of the OpenAIRealtimeClient run.
clientRun == << script, is_connected, ev, slot, sid, eid, conns, op, pc, arg, loc,
                ret, val, why, reqSent, warned, nmsg, dropped, nops,
                createdIds, lostPending, arrived, duo >>

client == << is_connected, ev, slot, sid, eid, warned, createdIds >>
caller == << op, pc, arg, loc, ret, val, why, reqSent >>

NoLoc == [k |-> "none"]
NoVal == [k |-> "none"]
NoArg == [event_id |-> None, item_id |-> None]

\* The message types commit collects.
CommitTypes ==
  { "input_audio_buffer.committed",
    "conversation.item.created",
    "conversation.item.input_audio_transcription.delta",
    "conversation.item.input_audio_transcription.completed" }

\* The running transcript after a delta message.
DeltaTranscript(t, m) == IF m.delta # << >> THEN t \o m.delta ELSE t

\* Nothing was delivered yet to the waiting commit.
NoArrivals == [types |-> {}, deltas |-> << >>]

\* Message m answers the operation o that waits for it: one of the types
\* commit collects, the cleared ack with its event_id, or session.updated.
Awaited(o, m) ==
  \/ o = "commit" /\ m.type \in CommitTypes
  \/ o = "clear" /\ m.type = "input_audio_buffer.cleared" /\ m.event_id # None
  \/ o = "update" /\ m.type = "session.updated"

\* The record of deliveries after message m: kept in the runs of the
\* "delivery" and "acks" drivers from the moment the operation has sent its
\* request until it returns, of the types it waits for, with the delta
\* fields in arrival order.
Arrive(m) ==
  IF /\ script.name \in {"delivery", "acks"}
     /\ pc # "done" /\ reqSent
     /\ IsDict(m) /\ Awaited(op, m)
    THEN [types  |-> arrived.types \cup {m.type},
          deltas |-> IF m.type = "conversation.item.input_audio_transcription.delta"
                       THEN arrived.deltas \o m.delta ELSE arrived.deltas]
    ELSE arrived

\* Two threads about to call send_conversation_item_retrieve_and_validate on
\* one connected client: each has its position, the message it took from the
\* slot and its result; slot is the latest_received_message they share;
\* answered holds the item ids whose response the server has sent, and got
\* those sent while both requests were in flight.
DuoThreads == {1, 2}
DuoIdle ==
  [pc |-> "idle", msg |-> NoneMsg, ret |-> "None", val |-> NoVal, why |-> "init"]
DuoInit ==
  [slot |-> NoneMsg, t |-> [i \in DuoThreads |-> DuoIdle],
   answered |-> {}, got |-> {}]

\* OpenAIRealtimeClient.__init__
ClientInit ==
  /\ duo = DuoInit
  /\ is_connected = FALSE
  /\ ev = [open |-> FALSE, created |-> FALSE, updated |-> FALSE, close |-> FALSE]
  /\ slot = NoneMsg
  /\ sid = None
  /\ eid = None
  /\ conns = << >>
  /\ op = "none"
  /\ pc = "done"
  /\ arg = NoArg
  /\ loc = NoLoc
  /\ ret = "None"
  /\ val = NoVal
  /\ why = "init"
  /\ reqSent = FALSE
  /\ warned = FALSE
  /\ nmsg = 0
  /\ dropped = 0
  /\ nops = 0
  /\ createdIds = {}
  /\ lostPending = FALSE
  /\ arrived = NoArrivals

\* self.ws: the index of the latest WebSocketApp, 0 when there is none.
ws == Len(conns)
Pending == pc # "done"

\* ------------------------------------------------ websocket-thread callbacks
\* on_message, the session.created branch.
HandleCreated(m) ==
  /\ eid' = IF m.event_id # None THEN m.event_id ELSE eid
  /\ sid' = IF m.session_id # None THEN m.session_id ELSE sid
  /\ createdIds' = IF m.session_id # None THEN createdIds \cup {m.session_id}
                                          ELSE createdIds
  /\ ev' = [ev EXCEPT !.created = TRUE]
  /\ UNCHANGED warned

\* The condition under which the session.updated branch prints its warning.
UpdatedWarns(stored, m) == stored # None /\ stored # m.session_id

\* on_message, the session.updated branch.
HandleUpdated(m) ==
  /\ warned' = IF m.session_id # None THEN UpdatedWarns(sid, m) ELSE FALSE
  /\ sid' = IF m.session_id # None THEN m.session_id ELSE sid
  /\ ev' = [ev EXCEPT !.updated = TRUE]
  /\ UNCHANGED << eid, createdIds >>

\* A handler that waits until the previous message has been consumed before
\* it stores the next one: C34 fails with it.
on_message_WaitsForConsumer(i, m) ==
  /\ ~Truthy(slot)
  /\ conns[i].st = "open"
  /\ nmsg < script.nmsgs
  /\ nmsg' = nmsg + 1
  /\ slot' = m
  /\ IF ~IsDict(m)
       THEN \* data.get raises; the broad except prints and returns
            UNCHANGED << ev, sid, eid, warned, createdIds >>
       ELSE IF m.type = "session.created" THEN HandleCreated(m)
       ELSE IF m.type = "session.updated" THEN HandleUpdated(m)
       ELSE UNCHANGED << ev, sid, eid, warned, createdIds >>
  /\ arrived' = Arrive(m)
  /\ UNCHANGED << script, wm, asm, duo, dropped, is_connected, conns, caller, nops,
                  lostPending >>

\* on_message for a text that json.loads decodes to m.
on_message(i, m) ==
  /\ conns[i].st = "open"
  /\ nmsg < script.nmsgs
  /\ nmsg' = nmsg + 1
  /\ slot' = m
  /\ IF ~IsDict(m)
       THEN \* data.get raises; the broad except prints and returns
            UNCHANGED << ev, sid, eid, warned, createdIds >>
       ELSE IF m.type = "session.created" THEN HandleCreated(m)
       ELSE IF m.type = "session.updated" THEN HandleUpdated(m)
       ELSE UNCHANGED << ev, sid, eid, warned, createdIds >>
  /\ arrived' = Arrive(m)
  /\ UNCHANGED << script, wm, asm, duo, dropped, is_connected, conns, caller, nops,
                  lostPending >>

\* A faulty handler that resets the slot before it decodes: C13 fails with it.
on_message_malformed_Resets(i) ==
  /\ conns[i].st = "open"
  /\ dropped < script.drops
  /\ dropped' = dropped + 1
  /\ slot' = NoneMsg
  /\ UNCHANGED << script, wm, asm, duo, is_connected, ev, sid, eid, warned,
                  createdIds, conns, caller, nmsg, nops, lostPending, arrived >>

\* on_message for a text json.loads cannot decode: printed and dropped.
on_message_malformed(i) ==
  /\ conns[i].st = "open"
  /\ dropped < script.drops
  /\ dropped' = dropped + 1
  /\ UNCHANGED << script, wm, asm, duo, client, conns, caller, nmsg, nops,
                  lostPending, arrived >>

AllEventsSet == [open |-> TRUE, created |-> TRUE, updated |-> TRUE, close |-> TRUE]

\* What on_error and on_close do to the client.
MarkClosed ==
  /\ is_connected' = FALSE
  /\ ev' = AllEventsSet

on_error(i) ==
  /\ conns[i].st \in {"connecting", "open"}
  /\ conns' = [conns EXCEPT ![i].st = "errored"]
  /\ MarkClosed
  /\ lostPending' = (lostPending \/ (Pending /\ i = ws))
  /\ UNCHANGED << env, slot, sid, eid, warned, createdIds, caller, nmsg, nops >>

on_close(i) ==
  /\ conns[i].st \in {"open", "errored"}
  /\ conns' = [conns EXCEPT ![i].st = "closed"]
  /\ MarkClosed
  /\ lostPending' = (lostPending \/ (Pending /\ i = ws))
  /\ UNCHANGED << env, slot, sid, eid, warned, createdIds, caller, nmsg, nops >>

on_open(i) ==
  /\ conns[i].st = "connecting"
  /\ conns' = [conns EXCEPT ![i].st = "open"]
  /\ is_connected' = TRUE
  /\ ev' = [ev EXCEPT !.open = TRUE]
  /\ UNCHANGED << env, slot, sid, eid, warned, createdIds, caller, nmsg, nops,
                  lostPending >>

\* ------------------------------------------------------- caller: helpers
\* The caller invokes operation o.
Begin(o, a, p, l) ==
  /\ pc = "done"
  /\ o \in script.ops
  /\ nops < script.nops
  /\ nops' = nops + 1
  /\ op' = o
  /\ arg' = a
  /\ pc' = p
  /\ loc' = l
  /\ ret' = "None"
  /\ val' = NoVal
  /\ why' = "running"
  /\ reqSent' = FALSE
  /\ lostPending' = FALSE

\* The operation returns r (with value v) through the return statement w.
Return(r, v, w) ==
  /\ pc' = "done"
  /\ ret' = r
  /\ val' = v
  /\ why' = w

\* ws.send raises unless the socket of self.ws is open and not being closed.
CanSend == ws > 0 /\ conns[ws].st = "open" /\ ~conns[ws].closeReq

\* A faulty head that sends without looking at is_connected: C11 fails with it.
SendOrFail_Unguarded(o, next, fail) ==
  /\ op = o
  /\ pc = "send"
  /\ IF CanSend
       THEN pc' = next /\ reqSent' = TRUE /\ UNCHANGED << ret, val, why >>
       ELSE Return(fail, NoVal, "send_failed") /\ UNCHANGED reqSent
  /\ UNCHANGED << env, client, conns, op, arg, loc, nmsg, nops, lostPending >>

\* The common head of every request operation: the is_connected guard, then
\* ws.send inside try/except.  fail is the operation's failure value.
SendOrFail(o, next, fail) ==
  /\ op = o
  /\ pc = "send"
  /\ IF ~is_connected
       THEN Return(fail, NoVal, "not_connected") /\ UNCHANGED reqSent
       ELSE IF CanSend
         THEN pc' = next /\ reqSent' = TRUE /\ UNCHANGED << ret, val, why >>
         ELSE Return(fail, NoVal, "send_failed") /\ UNCHANGED reqSent
  /\ UNCHANGED << env, client, conns, op, arg, loc, nmsg, nops, lostPending >>

\* ------------------------------------------------------ close_connection
\* A faulty first statement that closes self.ws whenever there is one,
\* connected or not: C12 fails with it.
CloseStart_AnyTransport(o) ==
  /\ op = o
  /\ pc = "cc_start"
  /\ IF ws > 0
       THEN /\ conns' = [conns EXCEPT ![ws].closeReq = TRUE]
            /\ pc' = "cc_wait"
       ELSE /\ pc' = "cc_join"
            /\ UNCHANGED conns
  /\ UNCHANGED << env, client, op, arg, loc, ret, val, why, reqSent, nmsg,
                  nops, lostPending >>

\* close_connection, first statement: ws.close() only if ws and is_connected.
CloseStart(o) ==
  /\ op = o
  /\ pc = "cc_start"
  /\ IF ws > 0 /\ is_connected
       THEN /\ conns' = [conns EXCEPT ![ws].closeReq = TRUE]
            /\ pc' = "cc_wait"
       ELSE /\ pc' = "cc_join"
            /\ UNCHANGED conns
  /\ UNCHANGED << env, client, op, arg, loc, ret, val, why, reqSent, nmsg,
                  nops, lostPending >>

\* close_event.wait(timeout=5): returns when the flag is set or after 5 s.
CloseWait(o) ==
  /\ op = o
  /\ pc = "cc_wait"
  /\ pc' = "cc_join"
  /\ UNCHANGED << env, client, conns, op, arg, loc, ret, val, why, reqSent,
                  nmsg, nops, lostPending >>

\* _ws_thread.join(timeout=5), then close_connection returns to its caller.
CloseJoin(o) ==
  /\ op = o
  /\ pc = "cc_join"
  /\ IF o = "connect"
       THEN Return("False", NoVal, loc.why)
       ELSE Return("None", NoVal, "closed")
  /\ UNCHANGED << env, client, conns, op, arg, loc, reqSent, nmsg, nops,
                  lostPending >>

CallClose ==
  /\ Begin("close", NoArg, "cc_start", NoLoc)
  /\ UNCHANGED << env, client, conns, nmsg >>

close_connection == CloseStart("close") \/ CloseWait("close") \/ CloseJoin("close")

\* ------------------------------------ connect_and_wait_for_session_created
\* Creates the WebSocketApp and starts its thread.
CallConnect ==
  /\ Len(conns) < script.conns
  /\ Begin("connect", NoArg, "c_open", [k |-> "connect", why |-> "running"])
  /\ conns' = Append(conns, [st |-> "connecting", closeReq |-> FALSE])
  /\ UNCHANGED << env, client, nmsg >>

\* connection_open_event.wait(timeout)
ConnectWaitOpen ==
  /\ op = "connect"
  /\ pc = "c_open"
  /\ \/ /\ ev.open
        /\ pc' = "c_created"
        /\ UNCHANGED loc
     \/ /\ ~ev.open
        /\ pc' = "cc_start"
        /\ loc' = [loc EXCEPT !.why = "open_timeout"]
  /\ UNCHANGED << env, client, conns, op, arg, ret, val, why, reqSent, nmsg,
                  nops, lostPending >>

\* session_created_event.wait(timeout)
ConnectWaitCreated ==
  /\ op = "connect"
  /\ pc = "c_created"
  /\ \/ /\ ev.created
        /\ pc' = "c_check"
        /\ UNCHANGED loc
     \/ /\ ~ev.created
        /\ pc' = "cc_start"
        /\ loc' = [loc EXCEPT !.why = "created_timeout"]
  /\ UNCHANGED << env, client, conns, op, arg, ret, val, why, reqSent, nmsg,
                  nops, lostPending >>

\* The final is_connected check and the return.
ConnectCheck ==
  /\ op = "connect"
  /\ pc = "c_check"
  /\ IF ~is_connected
       THEN Return("False", NoVal, "closed_after_created")
       ELSE Return("True", NoVal, "ok")
  /\ UNCHANGED << env, client, conns, op, arg, loc, reqSent, nmsg, nops,
                  lostPending >>

connect_and_wait_for_session_created ==
  \/ ConnectWaitOpen
  \/ ConnectWaitCreated
  \/ ConnectCheck
  \/ CloseStart("connect")
  \/ CloseWait("connect")
  \/ CloseJoin("connect")

\* --------------------------------- send_session_update_and_wait_for_updated
CallUpdate ==
  /\ Begin("update", NoArg, "send", NoLoc)
  /\ arrived' = NoArrivals
  /\ UNCHANGED << script, wm, asm, duo, dropped, client, conns, nmsg >>

\* session_updated_event.wait(timeout)
UpdateWait ==
  /\ op = "update"
  /\ pc = "u_wait"
  /\ IF ev.updated
       THEN pc' = "u_read" /\ UNCHANGED << ret, val, why >>
       ELSE Return("None", NoVal, "timeout")
  /\ UNCHANGED << env, client, conns, op, arg, loc, reqSent, nmsg, nops,
                  lostPending >>

\* The value send_session_update_and_wait_for_updated returns once the wait
\* is over: the is_connected check, then event_id of the latest message.
UpdateResult(connected, m) ==
  IF ~connected THEN << "None", NoVal, "closed_after_updated" >>
  ELSE IF ~Truthy(m) THEN << "None", NoVal, "no_event_id" >>
  ELSE IF ~IsDict(m) THEN << "raise", NoVal, "AttributeError" >>
  ELSE IF m.event_id # None THEN << "val", [event_id |-> m.event_id], "ok" >>
  ELSE << "None", NoVal, "no_event_id" >>

UpdateRead ==
  /\ op = "update"
  /\ pc = "u_read"
  /\ LET r == UpdateResult(is_connected, slot) IN Return(r[1], r[2], r[3])
  /\ UNCHANGED << env, client, conns, op, arg, loc, reqSent, nmsg, nops,
                  lostPending >>

send_session_update_and_wait_for_updated ==
  \/ SendOrFail("update", "u_wait", "None")
  \/ UpdateWait
  \/ UpdateRead

\* ------------------------------ send_audio_buffer_and_validate_speech_started
CallAppend ==
  /\ \E e \in {"e2"} : Begin("append", [NoArg EXCEPT !.event_id = e], "send", NoLoc)
  /\ UNCHANGED << env, client, conns, nmsg >>

\* The check of latest_received_message made right after the send.
AppendResult(m) ==
  IF ~Truthy(m) THEN << "False", NoVal, "not_found" >>
  ELSE IF ~IsDict(m) THEN << "raise", NoVal, "AttributeError" >>
  ELSE IF m.type # "input_audio_buffer.speech_started"
    THEN << "False", NoVal, "not_found" >>
  ELSE IF m.event_id = None THEN << "False", NoVal, "no_event_id" >>
  ELSE IF m.item_id = None THEN << "False", NoVal, "no_item_id" >>
  ELSE << "True", [type |-> m.type, event_id |-> m.event_id, item_id |-> m.item_id],
          "ok" >>

AppendCheck ==
  /\ op = "append"
  /\ pc = "a_check"
  /\ LET r == AppendResult(slot) IN Return(r[1], r[2], r[3])
  /\ slot' = IF Truthy(slot) /\ IsDict(slot)
                /\ slot.type = "input_audio_buffer.speech_started"
               THEN NoneMsg ELSE slot
  /\ UNCHANGED << env, is_connected, ev, sid, eid, warned, createdIds, conns,
                  op, arg, loc, reqSent, nmsg, nops, lostPending >>

send_audio_buffer_and_validate_speech_started ==
  \/ SendOrFail("append", "a_check", "False")
  \/ AppendCheck

\* ------------------------------------------------- the polling loops
\* Every polling operation repeats: if latest_received_message is truthy,
\* take it (PollRead), reset the slot to None and process the message
\* (its own step: the websocket thread may store a message in between);
\* else sleep 0.1 s.  The loop ends when the clock passes the timeout.
PollRead(o) ==
  /\ op = o
  /\ pc = "poll"
  /\ Truthy(slot)
  /\ loc' = [loc EXCEPT !.msg = slot]
  /\ pc' = "clear"
  /\ UNCHANGED << env, client, conns, op, arg, ret, val, why, reqSent, nmsg,
                  nops, lostPending >>

\* The same for the loops that call msg.get("type") before they reset the
\* slot (commit, response-create): a non-dict raises and stays in the slot.
PollReadTyped(o) ==
  /\ op = o
  /\ pc = "poll"
  /\ Truthy(slot)
  /\ IF IsDict(slot)
       THEN /\ loc' = [loc EXCEPT !.msg = slot]
            /\ pc' = "clear"
            /\ UNCHANGED << ret, val, why >>
       ELSE /\ Return("raise", NoVal, "AttributeError")
            /\ UNCHANGED loc
  /\ UNCHANGED << env, client, conns, op, arg, reqSent, nmsg, nops,
                  lostPending >>

\* ---------------------------------------- send_audio_buffer_commit_and_validate
\* An entry of the responses dict; {} is the entry with every key absent.
EmptyEntry == [type |-> None, event_id |-> None, item_id |-> None, transcript |-> None]

CommitLoc ==
  [k |-> "commit", msg |-> NoneMsg, recv |-> {}, transcript |-> << >>,
   resp |-> [t \in CommitTypes |-> EmptyEntry]]

CallCommit ==
  /\ \E e \in {"e2"} : Begin("commit", [NoArg EXCEPT !.event_id = e], "send", CommitLoc)
  /\ arrived' = NoArrivals
  /\ UNCHANGED << script, wm, asm, duo, dropped, client, conns, nmsg >>

\* The entry without the branch for the completed message: its transcript is
\* never taken from the message, and C16 fails with it.
CommitEntry_NoCompletedBranch(old, t, m) ==
  [type      |-> m.type,
   event_id  |-> m.event_id,
   item_id   |-> IF m.item_id # None THEN m.item_id ELSE m.item_ref,
   transcript |->
     IF m.type = "conversation.item.input_audio_transcription.delta"
       THEN DeltaTranscript(t, m)
     ELSE IF m.type = "conversation.item.created" /\ m.transcript # None
       THEN m.transcript
     ELSE old.transcript]

\* responses[msg_type] after message m of a collected type.
CommitEntry(old, t, m) ==
  [type      |-> m.type,
   event_id  |-> m.event_id,
   item_id   |-> IF m.item_id # None THEN m.item_id ELSE m.item_ref,
   transcript |->
     IF m.type = "conversation.item.input_audio_transcription.delta"
       THEN DeltaTranscript(t, m)
     ELSE IF m.type = "conversation.item.input_audio_transcription.completed"
       THEN m.transcript
     ELSE IF m.type = "conversation.item.created" /\ m.transcript # None
       THEN m.transcript
     ELSE old.transcript]

\* The body of the loop after msg and msg_type were taken.
CommitProcess ==
  /\ op = "commit"
  /\ pc = "clear"
  /\ slot' = NoneMsg
  /\ pc' = "poll"
  /\ LET m == loc.msg IN
       IF m.type \in CommitTypes
         THEN loc' = [loc EXCEPT
                 !.recv = @ \cup {m.type},
                 !.transcript =
                    IF m.type = "conversation.item.input_audio_transcription.delta"
                      THEN DeltaTranscript(@, m) ELSE @,
                 !.resp[m.type] = CommitEntry(@, loc.transcript, m)]
         ELSE UNCHANGED loc
  /\ UNCHANGED << env, is_connected, ev, sid, eid, warned, createdIds, conns,
                  op, arg, ret, val, why, reqSent, nmsg, nops, lostPending >>

\* A faulty commit that discards what it collected unless all four types
\* were observed: C3 fails with it.
CommitResult_AllOrNothing(l) ==
  IF Cardinality(l.recv) = 4 THEN << "val", l.resp >> ELSE << "None", NoVal >>

\* What commit returns when its loop has ended.
CommitResult(l) == << "val", l.resp >>

\* The loop condition is false: four types received, or the timeout passed.
CommitExit ==
  /\ op = "commit"
  /\ pc = "poll"
  /\ LET r == CommitResult(loc) IN
       Return(r[1], r[2], IF Cardinality(loc.recv) = 4 THEN "complete" ELSE "timeout")
  /\ arrived' = NoArrivals
  /\ UNCHANGED << script, wm, asm, duo, dropped, client, conns, op, arg, loc, reqSent,
                  nmsg, nops, lostPending >>

send_audio_buffer_commit_and_validate ==
  \/ SendOrFail("commit", "poll", "None")
  \/ /\ op = "commit"
     /\ pc = "poll"
     /\ Cardinality(loc.recv) < 4
     /\ PollReadTyped("commit")
  \/ CommitProcess
  \/ CommitExit

\* ----------------------------------------- send_audio_buffer_clear_and_validate
PollLoc == [k |-> "poll", msg |-> NoneMsg]

CallClear ==
  /\ \E e \in {"e2"} : Begin("clear", [NoArg EXCEPT !.event_id = e], "send", PollLoc)
  /\ arrived' = NoArrivals
  /\ UNCHANGED << script, wm, asm, duo, dropped, client, conns, nmsg >>

\* What the loop does with the message it took: "continue" or a return.
ClearResult(m) ==
  IF ~IsDict(m) THEN << "raise", NoVal, "AttributeError" >>
  ELSE IF m.type # "input_audio_buffer.cleared" THEN << "continue", NoVal, "" >>
  ELSE IF m.event_id = None THEN << "None", NoVal, "no_event_id" >>
  ELSE << "val", [type |-> m.type, event_id |-> m.event_id], "ok" >>

\* The body of a polling loop that returns from inside the loop.
PollProcess(o, r) ==
  /\ op = o
  /\ pc = "clear"
  /\ slot' = NoneMsg
  /\ IF r[1] = "continue"
       THEN pc' = "poll" /\ UNCHANGED << ret, val, why >>
       ELSE Return(r[1], r[2], r[3])
  /\ UNCHANGED << env, is_connected, ev, sid, eid, warned, createdIds, conns,
                  op, arg, loc, reqSent, nmsg, nops, lostPending >>

\* The loop without its clock test (while True): it never ends by timeout,
\* and C15 fails with it.
PollTimeout_NoClock(o) ==
  /\ op = o
  /\ pc = "poll"
  /\ FALSE
  /\ UNCHANGED vars

\* The loop of a polling operation ends by timeout: the operation returns None.
PollTimeout(o) ==
  /\ op = o
  /\ pc = "poll"
  /\ Return("None", NoVal, "timeout")
  /\ UNCHANGED << env, client, conns, op, arg, loc, reqSent, nmsg, nops,
                  lostPending >>

send_audio_buffer_clear_and_validate ==
  \/ SendOrFail("clear", "poll", "None")
  \/ PollRead("clear")
  \/ PollProcess("clear", ClearResult(loc.msg))
  \/ PollTimeout("clear")

\* --------------------------------- send_conversation_item_retrieve_and_validate
CallRetrieve ==
  /\ \E it \in {"A", "B"} :
       Begin("retrieve", [event_id |-> "e2", item_id |-> it], "send", PollLoc)
  /\ UNCHANGED << env, client, conns, nmsg >>

\* A faulty comparison that accepts every item id: C2 fails with it.
ItemIdOk_AcceptAny(requested, got) == TRUE

\* The check of the response's item id against the requested one.
ItemIdOk(requested, got) == got = requested

RetrieveResult(item_id, m) ==
  IF ~IsDict(m) THEN << "raise", NoVal, "AttributeError" >>
  ELSE IF m.type # "conversation.item.retrieved" THEN << "continue", NoVal, "" >>
  ELSE IF m.event_id = None THEN << "None", NoVal, "no_event_id" >>
  ELSE IF m.item_ref = None THEN << "None", NoVal, "no_item_id" >>
  ELSE IF ~ItemIdOk(item_id, m.item_ref) THEN << "None", NoVal, "item_id_mismatch" >>
  ELSE << "val",
          [type |-> m.type, event_id |-> m.event_id, item_id |-> m.item_ref,
           transcript |-> m.transcript, has_audio |-> (m.audio # None)],
          "ok" >>

send_conversation_item_retrieve_and_validate ==
  \/ SendOrFail("retrieve", "poll", "None")
  \/ PollRead("retrieve")
  \/ PollProcess("retrieve", RetrieveResult(arg.item_id, loc.msg))
  \/ PollTimeout("retrieve")

\* ----------------------------------- send_conversation_item_delete_and_validate
CallDelete ==
  /\ \E it \in {"A", "B"} :
       Begin("delete", [event_id |-> "e2", item_id |-> it], "send", PollLoc)
  /\ UNCHANGED << env, client, conns, nmsg >>

\* A faulty validation that looks at the type and the event id only: C21
\* fails with it.
DeleteResult_TypeOnly(item_id, m) ==
  IF ~IsDict(m) THEN << "raise", NoVal, "AttributeError" >>
  ELSE IF m.type # "conversation.item.deleted" THEN << "continue", NoVal, "" >>
  ELSE IF m.event_id = None THEN << "None", NoVal, "no_event_id" >>
  ELSE << "val", [type |-> m.type, event_id |-> m.event_id, item_id |-> m.item_id],
          "ok" >>

\* What the loop does with the message it took: "continue" or a return.
DeleteResult(item_id, m) ==
  IF ~IsDict(m) THEN << "raise", NoVal, "AttributeError" >>
  ELSE IF m.type # "conversation.item.deleted" THEN << "continue", NoVal, "" >>
  ELSE IF m.event_id = None THEN << "None", NoVal, "no_event_id" >>
  ELSE IF m.item_id = None THEN << "None", NoVal, "no_item_id" >>
  ELSE IF m.item_id # item_id THEN << "None", NoVal, "item_id_mismatch" >>
  ELSE << "val", [type |-> m.type, event_id |-> m.event_id, item_id |-> m.item_id],
          "ok" >>

send_conversation_item_delete_and_validate ==
  \/ SendOrFail("delete", "poll", "None")
  \/ PollRead("delete")
  \/ PollProcess("delete", DeleteResult(arg.item_id, loc.msg))
  \/ PollTimeout("delete")

\* ------------------------- send_transcription_session_update_and_validate
CallTUpdate ==
  /\ Begin("tupdate", NoArg, "send", PollLoc)
  /\ UNCHANGED << env, client, conns, nmsg >>

\* The condition under which the transcription update prints its warning.
TUpdateWarns(stored, m) == stored # None /\ m.session_id # stored

\* Steps 3 and 4 for the message the loop took: "continue", or the return.
TUpdateResult(m) ==
  IF ~IsDict(m) THEN << "raise", NoVal, "AttributeError" >>
  ELSE IF m.type # "transcription_session.updated" THEN << "continue", NoVal, "" >>
  ELSE IF m.event_id = None THEN << "None", NoVal, "no_event_id" >>
  ELSE IF m.session_id = None THEN << "None", NoVal, "no_session_id" >>
  ELSE << "val",
          [type |-> m.type, event_id |-> m.event_id, session_id |-> m.session_id],
          "ok" >>

TUpdateProcess ==
  /\ op = "tupdate"
  /\ pc = "clear"
  /\ slot' = NoneMsg
  /\ LET r == TUpdateResult(loc.msg) IN
       /\ IF r[1] = "continue"
            THEN pc' = "poll" /\ UNCHANGED << ret, val, why >>
            ELSE Return(r[1], r[2], r[3])
       /\ IF r[1] = "val"
            THEN /\ warned' = TUpdateWarns(sid, loc.msg)
                 /\ sid' = loc.msg.session_id
            ELSE UNCHANGED << warned, sid >>
  /\ UNCHANGED << env, is_connected, ev, eid, createdIds, conns, op, arg, loc,
                  reqSent, nmsg, nops, lostPending >>

send_transcription_session_update_and_validate ==
  \/ SendOrFail("tupdate", "poll", "None")
  \/ PollRead("tupdate")
  \/ TUpdateProcess
  \/ PollTimeout("tupdate")

\* -------------------------------------------- send_response_create_and_validate
\* The sort key of a collected delta; an absent index counts as 0.
ContentIndex(m) == IF m.ci = -1 THEN 0 ELSE m.ci
OutputIndex(m) == IF m.oi = -1 THEN 0 ELSE m.oi

\* A faulty key that ignores output_index: C7 fails with it.
KeyLE_ContentOnly(a, b) == ContentIndex(a) <= ContentIndex(b)

\* A faulty comparison that is strict: a chunk sorts in front of the earlier
\* chunks of its own key, and C40 fails with it.
KeyLE_Strict(a, b) ==
  \/ ContentIndex(a) < ContentIndex(b)
  \/ ContentIndex(a) = ContentIndex(b) /\ OutputIndex(a) < OutputIndex(b)

\* (content_index, output_index) of a is at most that of b.
KeyLE(a, b) ==
  \/ ContentIndex(a) < ContentIndex(b)
  \/ ContentIndex(a) = ContentIndex(b) /\ OutputIndex(a) <= OutputIndex(b)

\* x put into the sorted sequence s behind every element whose key is not
\* greater than its own.
RECURSIVE InsertSorted(_, _)
InsertSorted(x, s) ==
  IF s = << >> THEN << x >>
  ELSE IF KeyLE(Head(s), x) THEN << Head(s) >> \o InsertSorted(x, Tail(s))
  ELSE << x >> \o s

\* ordered_deltas.sort(key=(content_index, output_index)): a stable sort.
RECURSIVE SortDeltas(_)
SortDeltas(s) ==
  IF s = << >> THEN << >>
  ELSE InsertSorted(s[Len(s)], SortDeltas(SubSeq(s, 1, Len(s) - 1)))

RECURSIVE ConcatDeltas(_)
ConcatDeltas(s) == IF s = << >> THEN << >> ELSE Head(s).delta \o ConcatDeltas(Tail(s))

\* combined_audio: the collected deltas, sorted by key, concatenated.
CombineAudio(deltas) == ConcatDeltas(SortDeltas(deltas))

ResponseLoc ==
  [k |-> "response", msg |-> NoneMsg, created |-> NoneMsg, deltas |-> << >>,
   completed |-> NoneMsg, error |-> NoneMsg]

CallResponse ==
  /\ \E sa \in BOOLEAN :
       Begin("response", [event_id |-> "e2", item_id |-> None, save_audio |-> sa],
             "send", ResponseLoc)
  /\ UNCHANGED << env, client, conns, nmsg >>

\* The locals after the loop body has handled message m.
ResponseCollect(l, m) ==
  IF m.type = "response.created" THEN [l EXCEPT !.created = m]
  ELSE IF m.type = "response.audio.delta" THEN [l EXCEPT !.deltas = Append(@, m)]
  ELSE IF m.type = "response.audio.completed" THEN [l EXCEPT !.completed = m]
  ELSE IF m.type = "error" THEN [l EXCEPT !.error = m]
  ELSE l

\* has_partial_response without the rule for collected deltas: a timeout
\* with chunks but no response.created fails, and C19 fails with it.
HasPartial_CreatedOnly(l) == l.created # NoneMsg

\* has_partial_response
HasPartial(l) ==
  \/ l.created # NoneMsg
  \/ l.completed = NoneMsg /\ l.deltas # << >>

\* The responses dict as it is returned.
ResponseDict(l, save_audio) ==
  LET combine  == save_audio /\ l.deltas # << >>
      combined == CombineAudio(l.deltas)
  IN [created |-> l.created,
      deltas |-> l.deltas,
      completed |-> l.completed,
      combined_audio_delta |-> << >>,
      response_id |-> l.created.response_id,
      item_id |-> l.created.item_id,
      saved_audio_path |-> IF combine /\ combined # << >> THEN "path" ELSE None,
      has_combined_audio |-> combine,
      combined_audio |-> IF combine THEN combined ELSE << >>,
      error |-> l.error]

\* What response-create returns once its loop has ended.
ResponseResult(l, save_audio) ==
  IF HasPartial(l)
    THEN << "val", ResponseDict(l, save_audio), "ok" >>
    ELSE << "None", NoVal, IF l.error # NoneMsg THEN "api_error" ELSE "no_data" >>

ResponseProcess ==
  /\ op = "response"
  /\ pc = "clear"
  /\ slot' = NoneMsg
  /\ loc' = ResponseCollect(loc, loc.msg)
  /\ IF loc.msg.type = "response.audio.completed"
       THEN LET r == ResponseResult(loc', arg.save_audio) IN Return(r[1], r[2], r[3])
       ELSE pc' = "poll" /\ UNCHANGED << ret, val, why >>
  /\ UNCHANGED << env, is_connected, ev, sid, eid, warned, createdIds, conns,
                  op, arg, reqSent, nmsg, nops, lostPending >>

\* The loop ends by timeout.
ResponseTimeout ==
  /\ op = "response"
  /\ pc = "poll"
  /\ LET r == ResponseResult(loc, arg.save_audio) IN Return(r[1], r[2], r[3])
  /\ UNCHANGED << env, client, conns, op, arg, loc, reqSent, nmsg, nops,
                  lostPending >>

send_response_create_and_validate ==
  \/ SendOrFail("response", "poll", "None")
  \/ PollReadTyped("response")
  \/ ResponseProcess
  \/ ResponseTimeout

\* ------------------------------------------------------- WebSocketManager
\* The WebSocketManager of src/src/websockect_manager.py, driven on its own:
\* the caller connects, sends, waits for a message type and closes, while
\* the websocket thread runs the callbacks.

\* The types the caller waits for, and what the server may deliver.  WM_OnlyX
\* is the empty-payload message of type x: it carries nothing but its type.
WMTypes == {"x", "y"}
WM_OnlyX == Msg("x", None)
WM_FullX == Msg("x", "e1")
WM_OnlyY == Msg("y", None)
WMMsgSet == {WM_OnlyX, WM_FullX, WM_OnlyY, BlankMsg}

\* WebSocketManager.__init__ (message_callback stays None).
WMInit ==
  [connected |-> FALSE, open_ev |-> FALSE, close_ev |-> FALSE, slot |-> NoneMsg,
   conns |-> << >>, op |-> "none", pc |-> "done", arg |-> None,
   message |-> NoneMsg, ret |-> "None", val |-> NoneMsg, why |-> "init",
   nmsg |-> 0, dropped |-> 0, nops |-> 0, seen |-> {}, lost |-> FALSE]

WMObserved == wm.pc # "done" \/ wm.nops < script.nops
\* An error or close of the current transport signalled while connect waits.
WMLost(i) == wm.lost \/ (wm.op = "connect" /\ wm.pc = "c_open" /\ i = Len(wm.conns))
WMLive(i) == WMObserved /\ i \in 1..Len(wm.conns)
WMRest == UNCHANGED << clientRun, asm >>

WM_on_message(i, m) ==
  /\ WMLive(i)
  /\ wm.conns[i].st = "open"
  /\ wm.nmsg < script.nmsgs
  /\ wm' = [wm EXCEPT !.slot = m, !.nmsg = @ + 1, !.seen = @ \cup {m.type}]
  /\ WMRest

\* json.loads raises JSONDecodeError: printed, nothing stored.
WM_on_message_malformed(i) ==
  /\ WMLive(i)
  /\ wm.conns[i].st = "open"
  /\ wm.dropped < script.drops
  /\ wm' = [wm EXCEPT !.dropped = @ + 1]
  /\ WMRest

WM_on_error(i) ==
  /\ WMLive(i)
  /\ wm.conns[i].st \in {"connecting", "open"}
  /\ wm' = [wm EXCEPT !.conns[i].st = "errored", !.connected = FALSE,
                      !.open_ev = TRUE, !.close_ev = TRUE, !.lost = WMLost(i)]
  /\ WMRest

WM_on_close(i) ==
  /\ WMLive(i)
  /\ wm.conns[i].st \in {"open", "errored"}
  /\ wm' = [wm EXCEPT !.conns[i].st = "closed", !.connected = FALSE,
                      !.open_ev = TRUE, !.close_ev = TRUE, !.lost = WMLost(i)]
  /\ WMRest

WM_on_open(i) ==
  /\ WMLive(i)
  /\ wm.conns[i].st = "connecting"
  /\ wm' = [wm EXCEPT !.conns[i].st = "open", !.connected = TRUE,
                      !.open_ev = TRUE]
  /\ WMRest

\* The caller invokes operation o of the manager at position p.
WMCanBegin == script.name = "manager" /\ wm.pc = "done" /\ wm.nops < script.nops
WMBegin(o, a, p) ==
  [wm EXCEPT !.op = o, !.arg = a, !.pc = p, !.message = NoneMsg,
     !.ret = "None", !.val = NoneMsg, !.why = "running",
     !.nops = @ + 1, !.lost = FALSE]

WMReturn(w, r, v, y) == [w EXCEPT !.pc = "done", !.ret = r, !.val = v, !.why = y]

WMws == Len(wm.conns)

\* close_connection, as an operation and as the tail of a timed-out connect.
WMCloseStart ==
  /\ wm.pc = "cc_start"
  /\ wm' = IF WMws > 0 /\ wm.connected
             THEN [wm EXCEPT !.conns[WMws].closeReq = TRUE, !.pc = "cc_wait"]
             ELSE [wm EXCEPT !.pc = "cc_join"]
  /\ WMRest

\* close_event.wait(timeout=5): set, or timed out with a warning.
WMCloseWait ==
  /\ wm.pc = "cc_wait"
  /\ wm' = [wm EXCEPT !.pc = "cc_join"]
  /\ WMRest

\* The thread join; then connect returns False and close_connection None.
WMCloseJoin ==
  /\ wm.pc = "cc_join"
  /\ wm' = IF wm.op = "connect"
             THEN WMReturn(wm, "False", NoneMsg, "open_timeout")
             ELSE WMReturn(wm, "None", NoneMsg, "closed")
  /\ WMRest

WMCallClose ==
  /\ WMCanBegin
  /\ wm' = WMBegin("close", None, "cc_start")
  /\ WMRest

WM_close_connection == WMCloseStart \/ WMCloseWait \/ WMCloseJoin

WMCallConnect ==
  /\ WMCanBegin
  /\ Len(wm.conns) < script.conns
  /\ wm' = [WMBegin("connect", None, "c_open") EXCEPT
              !.conns = Append(@, [st |-> "connecting", closeReq |-> FALSE])]
  /\ WMRest

\* connection_open_event.wait(timeout): set, or timed out.
WM_connect ==
  /\ wm.op = "connect"
  /\ wm.pc = "c_open"
  /\ wm' = IF wm.open_ev
             THEN WMReturn(wm, IF wm.connected THEN "True" ELSE "False", NoneMsg,
                           "opened")
             ELSE [wm EXCEPT !.pc = "cc_start"]
  /\ WMRest

WMCanSend == WMws > 0 /\ wm.conns[WMws].st = "open" /\ ~wm.conns[WMws].closeReq

WMCallSend ==
  /\ WMCanBegin
  /\ wm' = WMBegin("send", None, "send")
  /\ WMRest

WM_send_message ==
  /\ wm.op = "send"
  /\ wm.pc = "send"
  /\ wm' = IF ~wm.connected THEN WMReturn(wm, "False", NoneMsg, "not_connected")
             ELSE IF WMCanSend THEN WMReturn(wm, "True", NoneMsg, "sent")
             ELSE WMReturn(wm, "False", NoneMsg, "send_failed")
  /\ WMRest

WMCallWait ==
  /\ WMCanBegin
  /\ \E t \in WMTypes : wm' = WMBegin("wait", t, "w_poll")
  /\ WMRest

\* Line 167: the test of the slot.  A slot that does not pass it leaves the
\* loop to sleep and test again.
WMWaitMatches(s, expected_type) == Truthy(s) /\ s.type = expected_type

WMWaitCheck ==
  /\ wm.op = "wait"
  /\ wm.pc = "w_poll"
  /\ wm' = IF Truthy(wm.slot) /\ ~IsDict(wm.slot)
             THEN WMReturn(wm, "raise", NoneMsg, "AttributeError")
             ELSE IF WMWaitMatches(wm.slot, wm.arg)
               THEN [wm EXCEPT !.pc = "w_take"]
               ELSE wm
  /\ WMRest

\* Line 168: message = self.latest_received_message, read again.
WMWaitTake ==
  /\ wm.op = "wait"
  /\ wm.pc = "w_take"
  /\ wm' = [wm EXCEPT !.message = wm.slot, !.pc = "w_clear"]
  /\ WMRest

\* A faulty wait that returns a message only if it has a payload besides its
\* type, and None otherwise: C6 fails with it.
WMWaitResult_PayloadOnly(w) ==
  IF w.message = Msg(w.message.type, None)
    THEN WMReturn(w, "None", NoneMsg, "received")
    ELSE WMReturn(w, "val", w.message, "received")

\* What wait_for_message_type returns for the message it has read.
WMWaitResult(w) == WMReturn(w, "val", w.message, "received")

\* Lines 169-170: clear the slot and return the message.
WMWaitClear ==
  /\ wm.op = "wait"
  /\ wm.pc = "w_clear"
  /\ wm' = WMWaitResult([wm EXCEPT !.slot = NoneMsg])
  /\ WMRest

\* Lines 173-174: the loop ran out of time.
WMWaitTimeout ==
  /\ wm.op = "wait"
  /\ wm.pc = "w_poll"
  /\ wm' = WMReturn(wm, "None", NoneMsg, "timeout")
  /\ WMRest

WM_wait_for_message_type ==
  WMWaitCheck \/ WMWaitTake \/ WMWaitClear \/ WMWaitTimeout

WMOnOpen == \E i \in 1..Len(wm.conns) : WM_on_open(i)
WMOnMessage == \E i \in 1..Len(wm.conns) : \E m \in WMMsgSet : WM_on_message(i, m)
WMOnMessageMalformed == \E i \in 1..Len(wm.conns) : WM_on_message_malformed(i)
WMOnError == \E i \in 1..Len(wm.conns) : WM_on_error(i)
WMOnClose == \E i \in 1..Len(wm.conns) : WM_on_close(i)

NextWM ==
  \/ WMOnOpen
  \/ WMOnMessage
  \/ WMOnMessageMalformed
  \/ WMOnError
  \/ WMOnClose
  \/ WMCallConnect
  \/ WM_connect
  \/ WMCallClose
  \/ WM_close_connection
  \/ WMCallSend
  \/ WM_send_message
  \/ WMCallWait
  \/ WM_wait_for_message_type

\* ---------------------------------------------------- audio-delta assembly
\* Lines 989-1013 of send_response_create_and_validate on their own: the
\* collected response.audio.delta messages arrive in any order, then the
\* combined audio is built from them.
AsmChunks == 3

\* The delta messages the server may send: content_index absent, 0 or 1,
\* output_index absent, 0 or 1, and one of two payloads.
AsmDeltaSet ==
  { [Msg("response.audio.delta", "e15") EXCEPT !.delta = <<d>>, !.ci = c, !.oi = o] :
      d \in {"A", "B"}, c \in {-1, 0, 1}, o \in {-1, 1} }

AsmInit == [deltas |-> << >>, built |-> FALSE, combined_audio |-> << >>]

\* One more response.audio.delta is appended to responses["response.audio.delta"].
AsmCollect ==
  /\ ~asm.built
  /\ Len(asm.deltas) < AsmChunks
  /\ \E m \in AsmDeltaSet : asm' = [asm EXCEPT !.deltas = Append(@, m)]
  /\ UNCHANGED << clientRun, wm >>

\* The loop has ended with at least one delta and save_audio set.
AsmCombine ==
  /\ ~asm.built
  /\ asm.deltas # << >>
  /\ asm' = [asm EXCEPT !.built = TRUE, !.combined_audio = CombineAudio(asm.deltas)]
  /\ UNCHANGED << clientRun, wm >>

NextAsm == AsmCollect \/ AsmCombine

\* ---------------------------------------------- two callers on one client
\* Thread 1 retrieves item "A", thread 2 item "B".
DuoItem(i) == IF i = 1 THEN "A" ELSE "B"
DuoInFlight(i) == duo.t[i].pc \in {"poll", "clear"}
DuoRest ==
  UNCHANGED << script, is_connected, ev, slot, sid, eid, conns, op, pc, arg, loc,
               ret, val, why, reqSent, warned, wm, asm, nmsg, dropped, nops,
               createdIds, lostPending, arrived >>

\* Thread i sends its conversation.item.retrieve and enters the loop.
DuoCall(i) ==
  /\ duo.t[i].pc = "idle"
  /\ duo' = [duo EXCEPT !.t[i].pc = "poll"]
  /\ DuoRest

\* on_message with the response to a request that was sent and not yet
\* answered: the slot is replaced.
DuoOnMessage(m) ==
  /\ m.item_ref \notin duo.answered
  /\ \E i \in DuoThreads : DuoItem(i) = m.item_ref /\ duo.t[i].pc # "idle"
  /\ duo' = [duo EXCEPT
        !.slot = m,
        !.answered = @ \cup {m.item_ref},
        !.got = IF \A i \in DuoThreads : DuoInFlight(i)
                  THEN @ \cup {m.item_ref} ELSE @]
  /\ DuoRest

\* response_data = self.latest_received_message, in thread i.
DuoRead(i) ==
  /\ duo.t[i].pc = "poll"
  /\ Truthy(duo.slot)
  /\ duo' = [duo EXCEPT !.t[i].msg = duo.slot, !.t[i].pc = "clear"]
  /\ DuoRest

\* self.latest_received_message = None and the validation, in thread i.
DuoProcess(i) ==
  /\ duo.t[i].pc = "clear"
  /\ LET r == RetrieveResult(DuoItem(i), duo.t[i].msg) IN
       duo' = [duo EXCEPT
         !.slot = NoneMsg,
         !.t[i] = IF r[1] = "continue"
                    THEN [@ EXCEPT !.pc = "poll"]
                    ELSE [@ EXCEPT !.pc = "done", !.ret = r[1], !.val = r[2],
                                   !.why = r[3]]]
  /\ DuoRest

\* The loop of thread i runs out of time; a message may lie unread in the
\* slot at that moment.
DuoTimeout(i) ==
  /\ duo.t[i].pc = "poll"
  /\ duo' = [duo EXCEPT
        !.t[i].pc = "done", !.t[i].ret = "None", !.t[i].val = NoVal,
        !.t[i].why = IF Truthy(duo.slot) THEN "timeout_unread" ELSE "timeout"]
  /\ DuoRest

DuoCallRetrieve == \E i \in DuoThreads : DuoCall(i)
DuoDeliver == \E m \in {M_RetrievedA, M_RetrievedB} : DuoOnMessage(m)
DuoRetrieve == \E i \in DuoThreads : DuoRead(i) \/ DuoProcess(i) \/ DuoTimeout(i)

NextDuo == DuoCallRetrieve \/ DuoDeliver \/ DuoRetrieve

\* ------------------------------------------------------------- the system
\* A run is observed until its last operation has returned.
Observed == Pending \/ nops < script.nops

\* The websocket thread of any WebSocketApp created so far runs a callback.
OnOpen == Observed /\ \E i \in 1..Len(conns) : on_open(i)
OnMessage == Observed /\ \E i \in 1..Len(conns) : \E m \in script.msgs : on_message(i, m)
OnMessageMalformed == Observed /\ \E i \in 1..Len(conns) : on_message_malformed(i)
OnError == Observed /\ \E i \in 1..Len(conns) : on_error(i)
OnClose == Observed /\ \E i \in 1..Len(conns) : on_close(i)

Next ==
  \/ OnOpen
  \/ OnMessage
  \/ OnMessageMalformed
  \/ OnError
  \/ OnClose
  \/ CallConnect
  \/ connect_and_wait_for_session_created
  \/ CallClose
  \/ close_connection
  \/ CallUpdate
  \/ send_session_update_and_wait_for_updated
  \/ CallAppend
  \/ send_audio_buffer_and_validate_speech_started
  \/ CallCommit
  \/ send_audio_buffer_commit_and_validate
  \/ CallClear
  \/ send_audio_buffer_clear_and_validate
  \/ CallRetrieve
  \/ send_conversation_item_retrieve_and_validate
  \/ CallDelete
  \/ send_conversation_item_delete_and_validate
  \/ CallTUpdate
  \/ send_transcription_session_update_and_validate
  \/ CallResponse
  \/ send_response_create_and_validate
  \/ WMOnOpen
  \/ WMOnMessage
  \/ WMOnMessageMalformed
  \/ WMOnError
  \/ WMOnClose
  \/ WMCallConnect
  \/ WM_connect
  \/ WMCallClose
  \/ WM_close_connection
  \/ WMCallSend
  \/ WM_send_message
  \/ WMCallWait
  \/ WM_wait_for_message_type

\* The client, or the manager, against a server that obeys the wire protocol.
Init == script \in Scripts \cup {ManagerScript} /\ ClientInit /\ wm = WMInit /\ asm = AsmInit
Spec == Init /\ [][Next]_vars

\* ------------------------------------------------------------ progress
\* The calling thread: one step of whichever operation it is in.
CallerStep ==
  \/ connect_and_wait_for_session_created
  \/ close_connection
  \/ send_session_update_and_wait_for_updated
  \/ send_audio_buffer_and_validate_speech_started
  \/ send_audio_buffer_commit_and_validate
  \/ send_audio_buffer_clear_and_validate
  \/ send_conversation_item_retrieve_and_validate
  \/ send_conversation_item_delete_and_validate
  \/ send_transcription_session_update_and_validate
  \/ send_response_create_and_validate

WMCallerStep ==
  WM_connect \/ WM_close_connection \/ WM_send_message \/ WM_wait_for_message_type

\* A polling loop tests time.time() - start_time < timeout at its head.
LoopTimeout ==
  \/ \E o \in {"clear", "retrieve", "delete", "tupdate"} : PollTimeout(o)
  \/ CommitExit
  \/ ResponseTimeout

\* The thread inside a call keeps running (every wait it makes has a
\* timeout), and the clock advances: a loop that comes back to its head again
\* and again finds the timeout passed.  Nothing is assumed of the server or
\* of the websocket thread.
ClockAdvances ==
  /\ WF_vars(CallerStep)
  /\ WF_vars(WMCallerStep)
  /\ SF_vars(LoopTimeout)
  /\ SF_vars(WMWaitTimeout)

InitLive == script \in LiveScripts /\ ClientInit /\ wm = WMInit /\ asm = AsmInit
SpecLive == InitLive /\ [][Next]_vars /\ ClockAdvances

\* connect and commit alone, with the deliveries to the waiting commit
\* recorded.
NextDelivery ==
  \/ OnOpen
  \/ OnMessage
  \/ OnError
  \/ OnClose
  \/ CallConnect
  \/ connect_and_wait_for_session_created
  \/ CallCommit
  \/ send_audio_buffer_commit_and_validate

InitDelivery == script = DeliveryScript /\ ClientInit /\ wm = WMInit /\ asm = AsmInit
SpecDelivery == InitDelivery /\ [][NextDelivery]_vars

\* connect, clear and the session update alone, with the deliveries to the
\* waiting operation recorded.
NextAck ==
  \/ OnOpen
  \/ OnMessage
  \/ OnError
  \/ OnClose
  \/ CallConnect
  \/ connect_and_wait_for_session_created
  \/ CallClear
  \/ send_audio_buffer_clear_and_validate
  \/ CallUpdate
  \/ send_session_update_and_wait_for_updated

InitAck == script = AckScript /\ ClientInit /\ wm = WMInit /\ asm = AsmInit
SpecAck == InitAck /\ [][NextAck]_vars

\* Two threads in retrieve on a client that is connected.
InitDuo == script = IdleScript /\ ClientInit /\ wm = WMInit /\ asm = AsmInit
SpecDuo == InitDuo /\ [][NextDuo]_vars

\* The client against a server that may send any JSON value.
InitRaw == script \in RawScripts \cup {ManagerScript} /\ ClientInit /\ wm = WMInit /\ asm = AsmInit
SpecRaw == InitRaw /\ [][Next]_vars

\* The WebSocketManager alone.
InitWM == script = ManagerScript /\ ClientInit /\ wm = WMInit /\ asm = AsmInit
SpecWM == InitWM /\ [][NextWM]_vars

\* The assembly of the combined audio alone.
InitAsm == script = IdleScript /\ ClientInit /\ wm = WMInit /\ asm = AsmInit
SpecAsm == InitAsm /\ [][NextAsm]_vars

\* ------------------------------------------------------------------ claims
\* A message in the slot that its consumer has not read yet: a polling
\* operation has sent its request and is between two reads of the slot, and
\* the slot holds a JSON object other than the two handshake messages that
\* on_message consumes itself.
C1_Unread ==
  /\ pc = "poll"
  /\ reqSent
  /\ IsDict(slot)
  /\ slot.type \notin {"session.created", "session.updated"}

\* C1: no recorded inbound message is overwritten before a consumer has read
\* it: while an unread message is in the slot, the slot is left alone or is
\* reset by the consumer that takes it, and no other message replaces it.
C1_NoOverwriteBeforeRead ==
  [][ C1_Unread => (slot' = slot \/ slot' = NoneMsg) ]_vars

\* C2: a retrieve for item A whose response carries another item id fails,
\* and a retrieve that returns a result returns the data (item id,
\* transcript, audio flag) of a response whose item id is the requested one.
C2_RetrieveRejectsOtherItem ==
  (op = "retrieve" /\ pc = "done") =>
    /\ (loc.msg.type = "conversation.item.retrieved"
          /\ loc.msg.item_ref # arg.item_id) => ret = "None"
    /\ ret = "val" =>
         /\ loc.msg.item_ref = arg.item_id
         /\ val.item_id = arg.item_id
         /\ val.transcript = loc.msg.transcript
         /\ val.has_audio = (loc.msg.audio # None)

\* A retrieve for one item has read a complete response about the other
\* item and has returned.
C2_MismatchRejected ==
  /\ op = "retrieve"
  /\ pc = "done"
  /\ reqSent
  /\ loc.msg.type = "conversation.item.retrieved"
  /\ loc.msg.event_id # None
  /\ loc.msg.item_ref \notin {None, arg.item_id}
  /\ why = "item_id_mismatch"

\* The response types whose entry of a returned commit result is populated.
C3_Populated(v) == { t \in DOMAIN v : v[t] # EmptyEntry }

C4_AppendFailsOnlyByTimeout ==
  (op = "append" /\ pc = "done" /\ reqSent /\ ret = "False") =>
    why \in {"timeout", "no_event_id", "no_item_id"}

\* C5: a session id mismatch is logged but not fatal.  An updated event that
\* carries a session id prints the warning exactly when that id differs from
\* the one stored at session creation; and whichever id it carries, the
\* session update that finds the client connected and an event_id in the
\* latest message, and the transcription update that reads a complete
\* transcription_session.updated message, report success.
C5_SessionIdMismatchNonFatal ==
  [][ /\ (/\ nmsg' = nmsg + 1
          /\ slot'.type = "session.updated"
          /\ slot'.session_id # None
          /\ createdIds # {})
         => (warned' <=> slot'.session_id \notin createdIds)
      /\ (/\ op = "update" /\ pc = "u_read" /\ is_connected
          /\ IsDict(slot) /\ slot.event_id # None)
         => (pc' = "done" => ret' = "val")
      /\ (/\ op = "tupdate" /\ pc = "clear" /\ pc' = "done"
          /\ loc.msg.type = "transcription_session.updated"
          /\ loc.msg.event_id # None
          /\ loc.msg.session_id # None
          /\ createdIds # {})
         => /\ ret' = "val"
            /\ warned' <=> loc.msg.session_id \notin createdIds
    ]_vars

C7_Key(m) == << ContentIndex(m), OutputIndex(m) >>
C7_Before(a, b) ==
  \/ C7_Key(a)[1] < C7_Key(b)[1]
  \/ C7_Key(a)[1] = C7_Key(b)[1] /\ C7_Key(a)[2] < C7_Key(b)[2]
C7_DistinctKeys(s) ==
  \A i, j \in 1..Len(s) : i # j => C7_Key(s[i]) # C7_Key(s[j])
C7_ChunkSet(s) == { s[i] : i \in 1..Len(s) }
RECURSIVE C7_Ascending(_)
C7_Ascending(S) ==
  IF S = {} THEN << >>
  ELSE LET first == CHOOSE x \in S : \A y \in S \ {x} : C7_Before(x, y)
       IN first.delta \o C7_Ascending(S \ {first})

C8_ConnectSuccessStoresSessionId ==
  [][ (op = "connect" /\ pc # "done" /\ pc' = "done" /\ ret' = "True")
        => (is_connected' /\ sid' # None /\ sid' \in createdIds') ]_vars

\* C9: when connect_and_wait_for_session_created has returned False because
\* the open signal or session.created did not arrive in time, the close of
\* the transport was requested and is_connected is false, at the return and
\* for as long as the caller does nothing else.
C9_ConnectTimeoutTearsDown ==
  (op = "connect" /\ pc = "done" /\ ret = "False"
     /\ why \in {"open_timeout", "created_timeout"})
    => (conns[ws].closeReq /\ ~is_connected)

\* C10: an operation during which the transport of self.ws reported an error
\* or a close does not report a result: it returns its failure value.
C10_ConnectionLossFailsPending ==
  (/\ op \in {"connect", "update", "commit", "clear", "retrieve", "delete",
              "response"}
   /\ pc = "done"
   /\ lostPending)
    => ret \in {"None", "False"}

\* The failure value of a request operation of the client.
C11_FailureValue(o) == IF o = "append" THEN "False" ELSE "None"

\* C11: a request operation that finds is_connected false returns its
\* failure value at once, sends nothing, and leaves the message slot, the
\* session id, the event id and the transports as they were; the same for
\* send_message of the WebSocketManager.
C11_NotConnectedFailsUnchanged ==
  [][ /\ (pc = "send" /\ ~is_connected /\ pc' # pc)
         => /\ pc' = "done"
            /\ ret' = C11_FailureValue(op)
            /\ ~reqSent'
            /\ slot' = slot /\ sid' = sid /\ eid' = eid /\ conns' = conns
      /\ (wm.op = "send" /\ wm.pc = "send" /\ ~wm.connected /\ wm'.pc # wm.pc)
         => /\ wm'.pc = "done"
            /\ wm'.ret = "False"
            /\ wm'.why = "not_connected"
            /\ wm'.slot = wm.slot /\ wm'.conns = wm.conns
    ]_vars

\* A commit was invoked after the connection had closed, with a message
\* still in the slot and a session id stored, and has returned.
C11_CommitWhileClosed ==
  /\ op = "commit"
  /\ pc = "done"
  /\ why = "not_connected"
  /\ slot # NoneMsg
  /\ sid # None

\* C12: close_connection is idempotent.  No step of it raises or changes
\* the client's state; with is_connected false or no WebSocketApp (a closed
\* or never-opened client) it requests no transport close, and a call that
\* finds the close of self.ws already requested leaves the transports as
\* they are, so a second call in a row ends in the state of the first.  The
\* same holds for close_connection of the WebSocketManager.
C12_CloseIdempotent ==
  [][ /\ (op = "close" /\ pc # "done" /\ pc' # pc)
         => /\ client' = client
            /\ ret' # "raise"
            /\ (ws = 0 \/ ~is_connected \/ conns[ws].closeReq) => conns' = conns
      /\ (wm.op = "close" /\ wm.pc # "done" /\ wm'.pc # wm.pc)
         => /\ wm'.slot = wm.slot
            /\ wm'.connected = wm.connected
            /\ wm'.open_ev = wm.open_ev /\ wm'.close_ev = wm.close_ev
            /\ wm'.ret # "raise"
            /\ (WMws = 0 \/ ~wm.connected \/ wm.conns[WMws].closeReq)
                 => wm'.conns = wm.conns
    ]_vars

\* close_connection, called on a client whose transport the server had
\* closed, has passed its first statement without requesting a close.
C12_CloseOnClosedClient ==
  /\ op = "close"
  /\ pc = "cc_join"
  /\ ~is_connected
  /\ ws > 0
  /\ conns[ws].st = "closed"
  /\ ~conns[ws].closeReq

\* C13: an inbound text that is not decodable JSON is dropped: the step of
\* on_message that receives it leaves latest_received_message, the session
\* id, the event id, is_connected and the four events unchanged, in the
\* client and in the WebSocketManager, and the caller is not disturbed.
C13_MalformedTextDropped ==
  [][ /\ dropped' # dropped
         => /\ slot' = slot /\ sid' = sid /\ eid' = eid
            /\ is_connected' = is_connected /\ ev' = ev
            /\ caller' = caller
      /\ wm'.dropped # wm.dropped
         => /\ wm'.slot = wm.slot /\ wm'.connected = wm.connected
            /\ wm'.open_ev = wm.open_ev /\ wm'.close_ev = wm.close_ev
            /\ wm'.pc = wm.pc /\ wm'.ret = wm.ret
    ]_vars

\* An undecodable text arrived while a message was in the slot and a session
\* id was stored.
C13_DroppedAfterMessage ==
  /\ dropped > 0
  /\ slot # NoneMsg
  /\ sid # None
  /\ is_connected

\* C14: WebSocketManager.connect fails when the open wait times out, returns
\* success only if is_connected is true at the moment it returns, and returns
\* failure whenever an error or close of the transport it is opening was
\* signalled while it waited.
C14_ConnectSucceedsOnlyIfOpen ==
  [][ (wm.op = "connect" /\ wm.pc # "done" /\ wm'.pc = "done")
        => /\ wm.pc = "cc_join" => wm'.ret = "False"
           /\ wm'.ret = "True" => wm'.connected
           /\ wm.lost => wm'.ret = "False" ]_vars

\* C15: every call of connect, session update, append, commit, clear,
\* retrieve, delete, response-create, wait_for_message_type and
\* close_connection eventually returns, whatever the server and the
\* websocket thread do, provided the clock advances.
C15_InCall == pc # "done" \/ wm.pc # "done"
C15_EveryCallReturns == C15_InCall ~> ~C15_InCall

\* A call that got no message at all has returned by its timeout.
C15_ReturnedWithoutMessages ==
  /\ op \in {"commit", "clear", "retrieve", "delete", "response"}
  /\ pc = "done"
  /\ why = "timeout"
  /\ reqSent
  /\ nmsg = 0

\* C16: when commit has observed a transcription.completed message, the
\* transcript of the completed entry it reports is the transcript field of
\* that message (the last one observed), whatever deltas were accumulated:
\* the entry is written from the message alone, no other message changes
\* it, and the dict is returned as it stands.
C16_Completed == "conversation.item.input_audio_transcription.completed"
C16_CompletedTranscriptFromMessage ==
  [][ /\ (op = "commit" /\ pc = "clear" /\ pc' # pc)
         => IF loc.msg.type = C16_Completed
              THEN loc'.resp[C16_Completed].transcript = loc.msg.transcript
              ELSE loc'.resp[C16_Completed] = loc.resp[C16_Completed]
      /\ (op = "commit" /\ pc = "poll" /\ pc' = "done" /\ ret' = "val")
         => val' = loc.resp ]_vars

\* commit returned after one delta ("He") and the completed message ("Hey").
C16_CompletedDiffersFromDeltas ==
  /\ op = "commit"
  /\ pc = "done"
  /\ ret = "val"
  /\ val["conversation.item.input_audio_transcription.delta"].type # None
  /\ Len(val["conversation.item.input_audio_transcription.delta"].transcript) = 1
  /\ val[C16_Completed].transcript = "Hey"

\* C17: commit leaves its loop before the timeout only when all four response
\* types were observed; and when the server has delivered all four types to
\* the waiting commit and none is still unread in the slot, commit returns
\* with all four recorded.
C17_AllFourDeliveredAllFourRecorded ==
  [][ (op = "commit" /\ pc = "poll" /\ pc' = "done" /\ ret' = "val")
        => /\ why' # "timeout" => loc.recv = CommitTypes
           /\ (arrived.types = CommitTypes /\ slot = NoneMsg)
                => /\ loc.recv = CommitTypes
                   /\ \A t \in CommitTypes : val'[t].type = t ]_vars

\* C18: the transcript commit reports in the delta entry is its running
\* transcript, and that is the concatenation, in arrival order, of the delta
\* fields of every delta message delivered while commit waited (none of them
\* still unread in the slot).
C18_Delta == "conversation.item.input_audio_transcription.delta"
C18_DeltaTranscriptIsAllDeltas ==
  [][ (op = "commit" /\ pc = "poll" /\ pc' = "done" /\ ret' = "val" /\ slot = NoneMsg)
        => /\ C18_Delta \in loc.recv => val'[C18_Delta].transcript = loc.transcript
           /\ arrived.deltas # << >> => C18_Delta \in loc.recv
           /\ loc.transcript = arrived.deltas ]_vars

\* C19 as stated: when response-create leaves its loop by timeout with at
\* least one audio-delta chunk collected it returns the partial result, and
\* with zero chunks and no response.audio.completed observed it fails.
C19_ZeroChunksFails ==
  [][ (op = "response" /\ pc = "poll" /\ pc' = "done")
        => /\ loc.deltas # << >> => (ret' = "val" /\ val'.deltas = loc.deltas)
           /\ (loc.deltas = << >> /\ loc.completed = NoneMsg) => ret' = "None" ]_vars

\* C19, amended: when response-create leaves its loop by timeout with at
\* least one audio-delta chunk collected it returns the partial result; with
\* zero chunks it fails only if no response.created was observed either, and
\* returns the result holding the response.created message otherwise.
C19_PartialUnlessNothingObserved ==
  [][ (op = "response" /\ pc = "poll" /\ pc' = "done")
        => /\ loc.deltas # << >> => (ret' = "val" /\ val'.deltas = loc.deltas)
           /\ (loc.deltas = << >> /\ loc.created = NoneMsg) => ret' = "None"
           /\ (loc.deltas = << >> /\ loc.created # NoneMsg)
                => (ret' = "val" /\ val'.created = loc.created) ]_vars

\* response-create timed out with chunks collected but no response.created,
\* and returned them.
C19_ChunksWithoutCreated ==
  /\ op = "response"
  /\ pc = "done"
  /\ ret = "val"
  /\ val.created = NoneMsg
  /\ val.completed = NoneMsg
  /\ val.deltas # << >>

\* C20: when response-create has read an inbound message of type error while
\* it waited, what it returns differs from what it returns on a plain
\* timeout with no message at all.
C20_PlainTimeout == ResponseResult(ResponseLoc, arg.save_audio)
C20_ErrorDiffersFromTimeout ==
  [][ (op = "response" /\ pc \in {"poll", "clear"} /\ pc' = "done" /\ loc'.error # NoneMsg)
        => << ret', val' >> # << C20_PlainTimeout[1], C20_PlainTimeout[2] >> ]_vars

\* C21: a delete that has read a conversation.item.deleted response whose
\* item_id differs from the requested one, or is missing, fails; a delete that
\* returns a result has read a response echoing the requested item_id and
\* returns that id.
C21_DeleteNeedsEchoedItemId ==
  (op = "delete" /\ pc = "done") =>
    /\ (loc.msg.type = "conversation.item.deleted"
          /\ loc.msg.item_id # arg.item_id) => ret = "None"
    /\ ret = "val" =>
         /\ loc.msg.type = "conversation.item.deleted"
         /\ loc.msg.item_id = arg.item_id
         /\ val.item_id = arg.item_id

\* A delete has read a deleted response that carries an event id but no
\* item_id, and has returned.
C21_MissingItemIdRejected ==
  /\ op = "delete"
  /\ pc = "done"
  /\ reqSent
  /\ loc.msg.type = "conversation.item.deleted"
  /\ loc.msg.event_id # None
  /\ loc.msg.item_id = None
  /\ ret = "None"

\* C22: a clear that has sent its request returns the cleared ack when an
\* input_audio_buffer.cleared message with an event_id was delivered between
\* the request and the return (a delivery that still lies unread in the slot
\* when the time runs out is not counted), and returns None when no such
\* message was delivered in that time.
C22_ClearFollowsDelivery ==
  (script.name = "acks" /\ op = "clear" /\ pc = "done" /\ reqSent) =>
    /\ ("input_audio_buffer.cleared" \in arrived.types /\ slot # M_Cleared)
          => ret = "val"
    /\ ret = "val" => "input_audio_buffer.cleared" \in arrived.types

\* C22, first half alone: a cleared ack delivered to the waiting clear and
\* no longer in the slot makes the call succeed.
C22_DeliveredMeansSuccess ==
  (script.name = "acks" /\ op = "clear" /\ pc = "done" /\ reqSent
     /\ "input_audio_buffer.cleared" \in arrived.types /\ slot # M_Cleared)
    => ret = "val"

\* C23: a message that on_message stores between a polling loop's read of
\* latest_received_message and its reset to None is not lost: when the reset
\* runs, the slot still holds the message the loop read, or the reset leaves
\* the slot alone.
C23_ResetKeepsLaterMessage ==
  [][ (pc = "clear" /\ pc' # "clear" /\ slot # loc.msg) => slot' = slot ]_vars

\* Thread i has taken a message from the slot and run its validation on it.
DuoProcessed(i) == duo.t[i].pc \in {"poll", "done"} /\ Truthy(duo.t[i].msg)

\* C24: a delivered message is consumed by at most one waiting operation:
\* two threads polling the slot never both read and process the same
\* message (the server sends each response once, so equal messages are one
\* delivery).
C24_ConsumedByAtMostOne ==
  ~(DuoProcessed(1) /\ DuoProcessed(2) /\ duo.t[1].msg = duo.t[2].msg)

\* C25: when the requests for items A and B are in flight together, both
\* responses are delivered while both are in flight, and no loop runs out of
\* time with a message unread in the slot, each retrieve returns the data of
\* its own item.
C25_EachGetsItsOwnItem ==
  (/\ \A i \in DuoThreads : duo.t[i].pc = "done"
   /\ duo.got = {"A", "B"}
   /\ \A i \in DuoThreads : duo.t[i].why # "timeout_unread")
    => \A i \in DuoThreads :
         /\ duo.t[i].ret = "val"
         /\ duo.t[i].val.item_id = DuoItem(i)

\* C26: an operation accepts a response only when its correlation
\* identifier matches the one supplied with the request: a clear that
\* returns the cleared ack returns one whose event_id is the event_id it was
\* called with.
C26_ClearAckMatchesRequest ==
  (op = "clear" /\ pc = "done" /\ ret = "val") => val.event_id = arg.event_id

\* C27: a JSON message without a type is dropped: a delivery that replaces a
\* message still unconsumed in latest_received_message is never the delivery
\* of a message that has no type.
C27_NoTypeLeavesSlot ==
  [][ (nmsg' = nmsg + 1 /\ Truthy(slot) /\ slot' # slot) => slot'.type # None ]_vars

\* C28: the session id stored from session.created stays: global_session_id,
\* once it holds the id of a session.created message, changes only when
\* another session.created is delivered, never on session.updated or
\* transcription_session.updated.
C28_SessionIdStable ==
  [][ (sid \in createdIds /\ sid' # sid)
        => (nmsg' = nmsg + 1 /\ slot'.type = "session.created") ]_vars

\* C29: a closed connection is terminal: once on_close or on_error has run
\* (close_event is set), no step makes is_connected true and no connect call
\* returns True.
C29_ClosedIsTerminal ==
  [][ ev.close =>
        /\ ~is_connected'
        /\ ~(op = "connect" /\ pc # "done" /\ pc' = "done" /\ ret' = "True") ]_vars

\* C29, the connect half alone: after close_event is set no connect call
\* returns True.
C29_NoConnectAfterClose ==
  [][ ev.close =>
        ~(op = "connect" /\ pc # "done" /\ pc' = "done" /\ ret' = "True") ]_vars

\* C30: a session update that has sent its request returns its event id only
\* when a session.updated message was delivered between the request and the
\* return, on the first call and on every later one.
C30_UpdateNeedsFreshAck ==
  (script.name = "acks" /\ op = "update" /\ pc = "done" /\ ret = "val") =>
    "session.updated" \in arrived.types

\* C30, the later call: when an update that was answered by its own
\* session.updated has returned and the next update is called, the call
\* starts with session_updated_event cleared, so that it waits for an
\* answer of its own.
C30_LaterCallStartsUnsignalled ==
  [][ (/\ script.name = "acks"
       /\ op = "update" /\ pc = "done" /\ ret = "val"
       /\ "session.updated" \in arrived.types
       /\ op' = "update" /\ pc' # "done")
        => ~ev'.updated ]_vars

\* C31: a session update that was answered by a session.updated message
\* after its request and returns an event id returns the event_id of a
\* session.updated message, whatever else was delivered before it read the
\* result.
C31_UpdateReturnsAckEventId ==
  [][ (/\ script.name = "acks"
       /\ op = "update" /\ pc = "u_read" /\ pc' = "done" /\ ret' = "val"
       /\ "session.updated" \in arrived.types)
        => (slot.type = "session.updated" /\ val'.event_id = slot.event_id) ]_vars

\* C32: the client keeps the most recent operation identifier: when
\* on_message has processed a session.updated message that carries an
\* event_id, global_event_id is that event_id.
C32_UpdatedSetsEventId ==
  [][ (/\ nmsg' = nmsg + 1
       /\ slot'.type = "session.updated"
       /\ slot'.event_id # None)
        => eid' = slot'.event_id ]_vars

\* C33: the lifecycle order.  On the single connection of the "acks" driver
\* a session update sends its request only after a session.created message
\* was received, and global_session_id changes only when a session.created
\* message is delivered.
C33_LifecycleOrder ==
  [][ (script.name = "acks") =>
        /\ (op = "update" /\ pc = "send" /\ pc' = "u_wait") => createdIds # {}
        /\ (sid' # sid) => (nmsg' = nmsg + 1 /\ slot'.type = "session.created") ]_vars

\* C33, the first half alone: the update request is sent only after
\* session.created.
C33_UpdateSentAfterCreated ==
  [][ (script.name = "acks" /\ op = "update" /\ pc = "send" /\ pc' = "u_wait")
        => createdIds # {} ]_vars

\* C33, the success of the update: it returns an event id only after
\* session.created.
C33_UpdateSucceedsAfterCreated ==
  (script.name = "acks" /\ op = "update" /\ pc = "done" /\ ret = "val")
    => createdIds # {}

\* C34: the receive path never blocks on a consumer.  While the run is
\* observed, each callback of the client and of the manager is a single step
\* that can be taken as soon as the transport is in the state that triggers
\* it, whatever operation is waiting and whether or not the message in the
\* slot has been consumed.
C34_ReceivePathNeverBlocks ==
  /\ Observed =>
       \A i \in 1..Len(conns) :
         /\ (conns[i].st = "open" /\ nmsg < script.nmsgs)
              => \A m \in script.msgs : ENABLED on_message(i, m)
         /\ (conns[i].st = "open" /\ dropped < script.drops)
              => ENABLED on_message_malformed(i)
         /\ conns[i].st = "connecting" => ENABLED on_open(i)
         /\ conns[i].st \in {"connecting", "open"} => ENABLED on_error(i)
         /\ conns[i].st \in {"open", "errored"} => ENABLED on_close(i)
  /\ WMObserved =>
       \A i \in 1..Len(wm.conns) :
         /\ (wm.conns[i].st = "open" /\ wm.nmsg < script.nmsgs)
              => \A m \in WMMsgSet : ENABLED WM_on_message(i, m)
         /\ wm.conns[i].st = "connecting" => ENABLED WM_on_open(i)
         /\ wm.conns[i].st \in {"connecting", "open"} => ENABLED WM_on_error(i)
         /\ wm.conns[i].st \in {"open", "errored"} => ENABLED WM_on_close(i)

\* An operation is polling, the message in the slot has not been consumed,
\* a transport is open and the server has more to send.
C34_DeliveryToBusyClient ==
  /\ pc = "poll" /\ Truthy(slot)
  /\ nmsg < script.nmsgs
  /\ \E i \in 1..Len(conns) : conns[i].st = "open"

\* C35: a response-create result built from at least one collected audio
\* delta carries in combined_audio_delta the concatenation of the collected
\* payloads in key order.
C35_CombinedAudioDeltaFilled ==
  (op = "response" /\ pc = "done" /\ ret = "val" /\ val.deltas # << >>) =>
    val.combined_audio_delta = CombineAudio(val.deltas)

\* on_error or on_close has run for the transport self.ws refers to.
C36_TransportLost == ws > 0 /\ conns[ws].st \in {"errored", "closed"}

\* C36: connection loss releases the handshake waits.  Once the current
\* transport has signalled error or close, a connect or session update that
\* is waiting leaves its wait through the event, never through the timeout,
\* and the call returns failure.
C36_LossReleasesHandshake ==
  [][ C36_TransportLost =>
        /\ (op = "connect" /\ pc \in {"c_open", "c_created"} /\ pc' # pc)
             => pc' \in {"c_created", "c_check"}
        /\ (op = "connect" /\ pc = "c_check" /\ pc' = "done") => ret' = "False"
        /\ (op = "update" /\ pc = "u_wait" /\ pc' # pc) => pc' = "u_read"
        /\ (op = "update" /\ pc = "u_read" /\ pc' = "done") => ret' = "None" ]_vars

\* C37: no inbound message makes a waiting operation raise: whatever JSON
\* value on_message has recorded, an object or not, none of the polling
\* operations ends by an exception.
C37_NoPollingOperationRaises ==
  op \in {"commit", "clear", "retrieve", "delete", "response", "tupdate"}
    => ret # "raise"

\* C38, the client's half: a polling operation that has read a message from
\* the slot leaves the slot empty when it has handled it, whether or not the
\* message's type is one it waits for.
C38_PollingRemovesWhatItReads ==
  [][ (/\ op \in {"commit", "clear", "retrieve", "delete", "response", "tupdate"}
       /\ pc = "clear" /\ pc' # "clear")
        => slot' = NoneMsg ]_vars

\* C38, the manager's half: wait_for_message_type takes a message out of the
\* slot only when its type is the awaited one, and leaves the slot as it is
\* when it returns by timeout.
C38_ManagerRemovesOnlyMatching ==
  [][ (wm.op = "wait" /\ wm.pc # "done" /\ wm'.pc = "done") =>
        /\ wm.pc = "w_poll" => wm'.slot = wm.slot
        /\ (wm.pc = "w_clear" /\ Truthy(wm.slot)) => wm.slot.type = wm.arg ]_vars

\* C39: once its request is sent, response-create returns a result exactly
\* when it observed response.created or collected at least one
\* response.audio.delta before its loop ended; with only
\* response.audio.completed or only an error message observed it fails.
C39_ResultIffCreatedOrDelta ==
  [][ (op = "response" /\ pc \in {"poll", "clear"} /\ pc' = "done")
        => (ret' = "val" <=> (loc'.created # NoneMsg \/ loc'.deltas # << >>)) ]_vars

\* The chunks of s whose (content_index, output_index) key is k, in the
\* order they have in s.
C40_WithKey(s, k) == SelectSeq(s, LAMBDA m : C7_Key(m) = k)
C40_Keys(s) == { C7_Key(s[i]) : i \in 1..Len(s) }

\* C40: when the audio deltas are combined, the chunks that share a key,
\* those without the two index fields counting as (0, 0), keep their arrival
\* order among themselves; so a stream whose chunks all carry one key is
\* combined exactly in arrival order.
C40_SameKeyKeepsArrivalOrder ==
  asm.built =>
    /\ \A k \in C40_Keys(asm.deltas) :
         C40_WithKey(SortDeltas(asm.deltas), k) = C40_WithKey(asm.deltas, k)
    /\ Cardinality(C40_Keys(asm.deltas)) = 1
         => asm.combined_audio = ConcatDeltas(asm.deltas)

\* Three chunks of key (0, 0), the first without index fields and the second
\* with content_index 0, arrived with different payloads and were combined.
C40_SameKeyStream ==
  /\ asm.built
  /\ Len(asm.deltas) = 3
  /\ C40_Keys(asm.deltas) = {<< 0, 0 >>}
  /\ asm.deltas[1].ci = -1 /\ asm.deltas[1].oi = -1
  /\ asm.deltas[2].ci = 0
  /\ asm.deltas[1].delta # asm.deltas[2].delta
  /\ asm.combined_audio = ConcatDeltas(asm.deltas)

====
